---- MODULE Spec2Model ----
(***************************************************************************)
(* Behavioural model of the fetch / retry / batch-persistence pipeline of  *)
(* illustrator_copilot: extract_book_data.py, extract_content.py,          *)
(* openlibrary_search.py and the rate-limited fetcher of app.py.           *)
(*                                                                         *)
(* One behaviour follows one job, chosen in Init:                          *)
(*   "limiter"             calls through @sleep_and_retry @limits          *)
(*   "fetcher"             one call of a @retry-decorated fetch function   *)
(*   "process_books"       extract_book_data.process_books, re-runnable    *)
(*   "fetch_missing_olids" extract_content.fetch_missing_olids             *)
(* The decorators come from the ratelimit and tenacity packages; their     *)
(* wrappers are modelled as those packages implement them (ratelimit 2.x:  *)
(* a counter that is reset when the period since last_reset has elapsed).  *)
(***************************************************************************)
EXTENDS Integers, Sequences, FiniteSets, TLC

VARIABLES
    job,          \* the job this behaviour runs
    \* ---- ratelimit.limits / sleep_and_retry state
    clock,        \* the limiter's clock (seconds)
    last_reset,   \* RateLimitDecorator.last_reset
    num_calls,    \* RateLimitDecorator.num_calls
    rl_calls,     \* RateLimitDecorator.clamped_calls (calls= of @limits)
    rl_pc,        \* "idle" | "sleeping" (inside sleep_and_retry's time.sleep)
    wake,         \* the time the sleeping caller wakes up
    log,          \* history: admission time -> calls admitted then (last PERIOD)
    outcome,      \* what the latest call did as seen by its caller
    blocked,      \* history: the latest call was put to sleep before it ran
    \* ---- one call of a tenacity @retry-decorated fetch function
    fn,               \* the fetch function called
    jsonErrIsReqExc,  \* the installed requests raises its own JSONDecodeError
    resps,            \* the upstream's answer to each attempt so far
    fpc,              \* "calling" | "done"
    result,           \* what the call handed to its caller
    \* ---- extract_book_data.process_books over one input and output path
    nrows,        \* data rows of input_csv
    batch_size,   \* chunksize
    csv_pc,       \* "rows" | "write" | "completed" | "failed" | "interrupted"
    chunk_lo,     \* first row of the chunk being handled
    next_row,     \* next row of the chunk to enrich
    fileExists,   \* os.path.exists(output_csv)
    fileLines,    \* the lines of output_csv
    runs,         \* how many times the job was started on these paths
    prev_end,     \* history: how the previous run on these paths ended
    \* ---- extract_content.fetch_missing_olids on one connection
    nb,           \* rows of "SELECT ... WHERE olid IS NULL"
    batch_lo,     \* first book of the batch being handled (the loop's i + 1)
    di,           \* next book of the batch
    updated,      \* the function's counter
    olid_state,   \* per book: "null" | "pending" (updated, not committed) | "committed"
    found,        \* history: the books an UPDATE was executed for
    dpc,          \* "books" | "batch_end" | "done" | "failed"
    \* ---- the books table (init_database) under imports, OLID updates, inserts
    csv_rows,     \* the rows of the CSV file that import_csv_to_database reads
    books,        \* the rows of table books, in id order: [olid, title]
    imports,      \* how many times import_csv_to_database has run
    imported,     \* the count the latest import returned
    \* ---- app.search_books: one request
    sb_query,     \* the query argument
    sb_items,     \* "items" of the Google Books response to it
    sb_pc,        \* "idle" | "done"
    sb_fetch,     \* what fetch_books_from_google did: [arrived, ok, books]
    sb_csv,       \* the CSV file save_results_to_csv wrote: [written, rows]
    sb_resp,      \* the response: [status, books, msg, link]
    \* ---- app.search_openlibrary: one request
    ol_query,     \* the query argument
    ol_docs,      \* "docs" of the Open Library response to it
    ol_pc,        \* "idle" | "done"
    ol_fetch,     \* what fetch_books_from_openlibrary did: [arrived, ok, books]
    ol_resp,      \* the response: [status, books, msg, link]
    \* ---- learning/librarycloud_test.extract_first_string: one call
    mods_value,   \* the MODS field passed as value
    mods_key,     \* the key argument
    mods_pc,      \* "idle" | "done"
    mods_out,     \* the string returned
    \* ---- app start-up and upload_search_results_to_drive
    cfg_key,      \* GOOGLE_BOOKS_API_KEY in the environment
    cfg_creds,    \* GOOGLE_APPLICATION_CREDENTIALS in the environment
    app_state,    \* "init" | "running" | "fatal"
    uploads,      \* calls of upload_search_results_to_drive made
    up_pc,        \* "idle" | "created" | "written" | "returned"
    up_empty,     \* the latest call was given no books
    tmp_exists,   \* the temporary CSV file of the latest call exists
    tmp_created,  \* the latest call created a temporary file
    up_link,      \* what the latest call returned: a link or "none"
    up_cfg_error, \* the latest call failed on the credentials
    \* ---- a rate-limited, retrying fetcher during one window of its limiter
    rt_fn,        \* the fetcher
    rt_clock,     \* seconds since the window began
    rt_calls,     \* calls the limiter admitted in the window
    rt_requests,  \* HTTP requests sent in the window
    rt_attempt,   \* attempts made by the current (or latest) call
    rt_waits,     \* the waits tenacity slept between them
    rt_pc,        \* "idle" | "waiting" (between attempts) | "sleeping" (over the limit)
    \* ---- extract_content.validate_olid: one call
    vo_input,     \* the string passed, as its sequence of characters
    vo_pc,        \* "idle" | "done"
    vo_result,    \* the boolean returned
    \* ---- extract_content: books, full_texts and images in one database
    ct_books,     \* books: the olid of each row (<< >> is NULL), the id is the index
    ct_texts,     \* full_texts: the book_id values of its rows (0 is NULL)
    ct_images,    \* images: the book_id values of its rows
    ct_pc,        \* "idle" | "run" (process_books_in_batches is iterating)
    ct_i,         \* the row of books the run has come to
    ct_run_texts, \* full-text rows this run wrote, per book id
    ct_run_images, \* cover rows this run wrote, per book id
    \* ---- import_csv_to_database: one call over the CSV files of the directory
    im_file,      \* files handled so far
    im_pending,   \* rows inserted by the call and not committed
    im_committed, \* rows inserted by the call and committed
    im_imported,  \* the counter "imported"
    im_pc,        \* "files" | "returned"
    \* ---- the published year of one item
    yr_field,     \* "dateIssued" (extract_year) | "publishedDate" (fetch_google_books)
    yr_shape,     \* how the date is held: "string" | "list_str" | "list_dict" | "missing"
    yr_text,      \* the date, as its sequence of characters
    yr_year,      \* the year of that date
    yr_pc,        \* "idle" | "done"
    yr_out,       \* the year written to the output
    \* ---- app.fetch_books_from_google under @lru_cache
    gc_cache,     \* the cache, most recently used first: "q" or "other" per entry
    gc_calls,     \* num_calls of the limiter in its current window
    gc_requests,  \* HTTP requests sent
    gc_errors,    \* calls that raised
    gc_q_ok,      \* an earlier call with query q succeeded
    gc_since,     \* other queries cached since q was last cached or returned
    gc_last,      \* the latest call: [query, q_ok, since, sent, slot, result]
    \* ---- fetch_missing_olids: the search variations of one book
    os_results,   \* what the search with each variation would give
    os_upd,       \* what the UPDATE would do: "ok" | "integrity_error"
    os_pc,        \* "idle" | "done"
    os_requests,  \* the variations searched, in order
    os_updates,   \* UPDATE statements executed for the book
    os_counted,   \* "updated" was incremented for the book
    os_set        \* the book's olid was set

limiterVars == <<clock, last_reset, num_calls, rl_calls, rl_pc, wake, log, outcome, blocked>>
fetcherVars == <<fn, jsonErrIsReqExc, resps, fpc, result>>
csvVars == <<nrows, batch_size, csv_pc, chunk_lo, next_row, fileExists, fileLines, runs, prev_end>>
olidVars == <<nb, batch_lo, di, updated, olid_state, found, dpc>>
dbVars == <<csv_rows, books, imports, imported>>
searchVars == <<sb_query, sb_items, sb_pc, sb_fetch, sb_csv, sb_resp>>
olSearchVars == <<ol_query, ol_docs, ol_pc, ol_fetch, ol_resp>>
modsVars == <<mods_value, mods_key, mods_pc, mods_out>>
uploadVars == <<cfg_key, cfg_creds, app_state, uploads, up_pc, up_empty, tmp_exists, tmp_created, up_link,
                up_cfg_error>>
retryVars == <<rt_fn, rt_clock, rt_calls, rt_requests, rt_attempt, rt_waits, rt_pc>>
validateVars == <<vo_input, vo_pc, vo_result>>
contentVars == <<ct_books, ct_texts, ct_images, ct_pc, ct_i, ct_run_texts, ct_run_images>>
importVars == <<im_file, im_pending, im_committed, im_imported, im_pc>>
yearVars == <<yr_field, yr_shape, yr_text, yr_year, yr_pc, yr_out>>
cacheVars == <<gc_cache, gc_calls, gc_requests, gc_errors, gc_q_ok, gc_since, gc_last>>
variationVars == <<os_results, os_upd, os_pc, os_requests, os_updates, os_counted, os_set>>
lateVars == <<uploadVars, retryVars, validateVars, contentVars, importVars, yearVars,
              cacheVars, variationVars>>
extVars == <<dbVars, searchVars, olSearchVars, modsVars, lateVars>>
vars == <<job, limiterVars, fetcherVars, csvVars, olidVars, extVars>>

\* ------------------------------------------------------------------ constants
GOOGLE_BOOKS_CALLS == 100
OPEN_LIBRARY_CALLS == 60
API_CALLS_PER_MINUTE == 60
PERIOD == 60
MAX_RETRIES == 5
STOP_AFTER_ATTEMPT == 3
OL_STOP_AFTER_ATTEMPT == 3
OLID_BATCH_SIZE == 10
COMMIT_EVERY == 10
INITIAL_BACKOFF == 2
MAX_BACKOFF == 30
MIN_WAIT_BETWEEN_REQUESTS == 2
WAIT_MULTIPLIER == 1
WAIT_MIN == 2
WAIT_MAX == 10
CACHE_MAXSIZE == 128
GOOGLE_SEARCH_CALLS == 100

\* ------------------------------------------------------------------ bounds
TickLen == 30
MaxClock == 90
MaxRows == 4
MaxBatch == 2
MaxRuns == 2
MaxBooks == 12
MaxCsvRows == 2
MaxImports == 2
MaxDbRows == 3
MaxItems == 2
MaxDocs == 2
MaxModsItems == 2
MaxUploads == 3
MaxOlidLen == 5
MaxContentBooks == 2
MaxFiles == 3
MaxFileRows == 3
MaxGoogleRequests == 131
MaxFetchErrors == 1
LongDescLen == 400

Jobs == {"limiter", "fetcher", "process_books", "fetch_missing_olids", "books_db",
         "search_books", "search_openlibrary",
         "mods", "upload", "retrying",
         "validate_olid", "content", "import_files",
         "year", "google_cache",
         "olid_search"}

\* ------------------------------------------------------------------ limiter
\* RateLimitDecorator.__period_remaining at time t
PeriodRemaining(t) == PERIOD - (t - last_reset)

\* mutant: the limit compared before the counter is incremented
OverLimitOffByOne(n) == n > rl_calls + 1

\* limits' wrapper: "if self.num_calls > self.clamped_calls: raise RateLimitException"
OverLimit(n) == n > rl_calls

\* mutant: the fetcher decorated with @limits only
SleepAndRetryMissing(r) == r

\* sleep_and_retry's wrapper: a RateLimitException is caught and slept on
SleepAndRetry(r) == IF r = "RateLimitException" THEN "sleeping" ELSE r

\* the admission log with one more call at time t
Logged(t) == [s \in DOMAIN log \cup {t} |->
                 IF s = t THEN (IF t \in DOMAIN log THEN log[t] + 1 ELSE 1) ELSE log[s]]

\* the admission log restricted to the PERIOD seconds that end at time t
Pruned(l, t) == [s \in {x \in DOMAIN l : x > t - PERIOD} |-> l[s]]

\* One pass of the decorated function at time t: limits' wrapper, then either
\* the function body or the RateLimitException handled by sleep_and_retry.
LimitsAt(t) ==
    LET remaining == PeriodRemaining(t)
        reset == remaining <= 0
        n == (IF reset THEN 0 ELSE num_calls) + 1
    IN  /\ clock' = t
        /\ last_reset' = IF reset THEN t ELSE last_reset
        /\ num_calls' = n
        /\ IF OverLimit(n)
             THEN LET r == SleepAndRetry("RateLimitException")
                  IN  /\ outcome' = r
                      /\ rl_pc' = IF r = "sleeping" THEN "sleeping" ELSE "idle"
                      /\ wake' = t + remaining
                      /\ blocked' = TRUE
                      /\ log' = Pruned(log, t)
             ELSE /\ outcome' = "executed"
                  /\ rl_pc' = "idle"
                  /\ wake' = wake
                  /\ blocked' = (rl_pc = "sleeping")
                  /\ log' = Pruned(Logged(t), t)

\* a caller invokes the rate-limited fetcher
CallFetcher ==
    /\ job = "limiter" /\ rl_pc = "idle" /\ clock <= MaxClock
    /\ LimitsAt(clock)
    /\ UNCHANGED <<job, rl_calls, fetcherVars, csvVars, olidVars, extVars>>

\* time.sleep(exception.period_remaining) returns and the while loop calls again
WakeAndRetry ==
    /\ job = "limiter" /\ rl_pc = "sleeping"
    /\ LimitsAt(wake)
    /\ UNCHANGED <<job, rl_calls, fetcherVars, csvVars, olidVars, extVars>>

\* time passes between two calls
Tick ==
    /\ job = "limiter" /\ rl_pc = "idle" /\ clock + TickLen <= MaxClock
    /\ clock' = clock + TickLen
    /\ log' = Pruned(log, clock + TickLen)
    /\ UNCHANGED <<job, last_reset, num_calls, rl_calls, rl_pc, wake, outcome, blocked>>
    /\ UNCHANGED <<fetcherVars, csvVars, olidVars, extVars>>

\* ------------------------------------------------------------------ fetchers
Fetchers == {"make_api_request", "fetch_google_books_summary",
             "fetch_open_library_details", "fetch_books_from_openlibrary"}

\* What the upstream can answer to one attempt:
\*   network_error  requests.get raises (Timeout, ConnectionError)
\*   http_429, http_5xx, http_4xx   the status of the response
\*   bad_json       status 200, the body is not JSON
\*   bad_shape      status 200, JSON of an unexpected shape (a list for the
\*                  document, "first_sentence": [], an item that is no dict)
\*   ok_empty       status 200, well-formed, no items / docs
\*   ok_data        status 200, well-formed, with data
Responses == {"network_error", "http_429", "http_5xx", "http_4xx",
              "bad_json", "bad_shape", "ok_empty", "ok_data"}
Retryable == {"network_error", "http_429", "http_5xx"}
Terminal == {"http_4xx", "bad_json", "bad_shape"}

\* what the function returns from its "except requests.RequestException" branch
OnRequestException(f) ==
    CASE f = "make_api_request" -> "None"
      [] f = "fetch_google_books_summary" -> "None"
      [] f = "fetch_open_library_details" -> "(None, None)"
      [] f = "fetch_books_from_openlibrary" -> "[]"
EmptyResults == {"None", "(None, None)", "[]"}

\* The decorated function's body on upstream answer r: the value it returns,
\* or "raise" when an exception leaves it.  requests.get raising, a 429 / 5xx
\* (raised inside the try by make_api_request, by raise_for_status in the
\* others) and a 4xx are all RequestException and end in the except branch;
\* response.json() on a non-JSON body raises requests' JSONDecodeError (a
\* RequestException) or a plain ValueError, depending on the requests version;
\* an unexpected shape raises AttributeError / IndexError / TypeError, which
\* leaves the function.  make_api_request never reads the body.
Body(f, r) ==
    IF r \in {"network_error", "http_429", "http_5xx", "http_4xx"}
        THEN OnRequestException(f)
    ELSE IF f = "make_api_request" THEN "response"
    ELSE IF r = "bad_json"
         THEN (IF jsonErrIsReqExc THEN OnRequestException(f) ELSE "raise")
    ELSE IF r = "bad_shape" THEN "raise"
    ELSE IF r = "ok_empty"
         THEN (IF f = "fetch_books_from_openlibrary" THEN "[]" ELSE OnRequestException(f))
    ELSE "data"

\* stop=stop_after_attempt(...) of the function's @retry
MaxAttempts(f) == IF f = "make_api_request" THEN MAX_RETRIES ELSE STOP_AFTER_ATTEMPT

\* what tenacity raises when it stops: the last exception under reraise=True
\* (make_api_request), RetryError otherwise
Exhausted(f) == IF f = "make_api_request" THEN "RequestException" ELSE "RetryError"

\* one attempt of the call: tenacity runs the body; a returned value ends the
\* call, an exception is retried until stop_after_attempt
Attempt(r) ==
    /\ job = "fetcher" /\ fpc = "calling"
    /\ resps' = Append(resps, r)
    /\ LET b == Body(fn, r)
       IN  IF b = "raise"
             THEN IF Len(resps) + 1 >= MaxAttempts(fn)
                    THEN fpc' = "done" /\ result' = Exhausted(fn)
                    ELSE fpc' = "calling" /\ result' = result
             ELSE fpc' = "done" /\ result' = b
    /\ UNCHANGED <<job, fn, jsonErrIsReqExc, limiterVars, csvVars, olidVars, extVars>>

InitFetcher ==
    /\ resps = << >> /\ fpc = "calling" /\ result = "none"

\* ------------------------------------------------------------------ process_books
\* every result a complete call of fetcher f can hand to its caller
RECURSIVE RunCall(_, _)
RunCall(f, attempt) ==
    UNION { LET b == Body(f, r)
            IN  IF b = "raise"
                  THEN (IF attempt >= MaxAttempts(f) THEN {Exhausted(f)}
                                                     ELSE RunCall(f, attempt + 1))
                  ELSE {b} : r \in Responses }
CallResults(f) == RunCall(f, 1)
Raised(x) == x \in {"RetryError", "RequestException"}

Header == [kind |-> "header", id |-> 0]
Row(i) == [kind |-> "row", id |-> i]
RowsSeq(lo, hi) == [k \in 1..(hi - lo + 1) |-> Row(lo + k - 1)]

\* last row of the chunk that starts at chunk_lo
ChunkHi == IF chunk_lo + batch_size - 1 < nrows THEN chunk_lo + batch_size - 1 ELSE nrows

\* the chunk's to_csv: mode 'w' with header when the path does not exist,
\* mode 'a' without header when it does
ToCsv(exists, lines, rows) == IF ~exists THEN <<Header>> \o rows ELSE lines \o rows

\* one iteration of "for index, row in chunk.iterrows()": the two fetches of
\* the row; an exception leaving a fetcher leaves the loops and is re-raised
ProcessRow(g, o) ==
    /\ job = "process_books" /\ csv_pc = "rows"
    /\ IF Raised(g) \/ Raised(o)
         THEN csv_pc' = "failed" /\ next_row' = next_row
         ELSE /\ next_row' = next_row + 1
              /\ csv_pc' = IF next_row + 1 > ChunkHi THEN "write" ELSE "rows"
    /\ UNCHANGED <<job, nrows, batch_size, chunk_lo, fileExists, fileLines, runs, prev_end>>
    /\ UNCHANGED <<limiterVars, fetcherVars, olidVars, extVars>>

\* the chunk is written and pd.read_csv yields the next chunk, if any
WriteChunk ==
    /\ job = "process_books" /\ csv_pc = "write"
    /\ fileLines' = ToCsv(fileExists, fileLines, RowsSeq(chunk_lo, ChunkHi))
    /\ fileExists' = TRUE
    /\ chunk_lo' = ChunkHi + 1
    /\ next_row' = ChunkHi + 1
    /\ csv_pc' = IF ChunkHi + 1 > nrows THEN "completed" ELSE "rows"
    /\ UNCHANGED <<job, nrows, batch_size, runs, prev_end>>
    /\ UNCHANGED <<limiterVars, fetcherVars, olidVars, extVars>>

\* the process is stopped in the middle of a run
Interrupt ==
    /\ job = "process_books" /\ csv_pc \in {"rows", "write"}
    /\ csv_pc' = "interrupted"
    /\ UNCHANGED <<job, nrows, batch_size, chunk_lo, next_row, fileExists, fileLines, runs, prev_end>>
    /\ UNCHANGED <<limiterVars, fetcherVars, olidVars, extVars>>

\* the job is started again on the same input and output paths
\* (__main__ / process_all_csvs derive the output path from the input name)
Rerun ==
    /\ job = "process_books" /\ csv_pc \in {"completed", "failed", "interrupted"}
    /\ runs < MaxRuns
    /\ runs' = runs + 1
    /\ prev_end' = csv_pc
    /\ csv_pc' = "rows" /\ chunk_lo' = 1 /\ next_row' = 1
    /\ UNCHANGED <<job, nrows, batch_size, fileExists, fileLines>>
    /\ UNCHANGED <<limiterVars, fetcherVars, olidVars, extVars>>

InitCsv ==
    /\ csv_pc = "rows" /\ chunk_lo = 1 /\ next_row = 1
    /\ fileExists = FALSE /\ fileLines = << >>
    /\ runs = 1 /\ prev_end = "none"

\* ------------------------------------------------------------------ fetch_missing_olids
\* last book of the batch that starts at batch_lo
BatchHi == IF batch_lo + OLID_BATCH_SIZE - 1 < nb THEN batch_lo + OLID_BATCH_SIZE - 1 ELSE nb

\* conn.commit(): every pending update becomes durable
Commit(s) == [b \in DOMAIN s |-> IF s[b] = "pending" THEN "committed" ELSE s[b]]

\* the connection goes away without a commit: pending updates are lost
Rollback(s) == [b \in DOMAIN s |-> IF s[b] = "pending" THEN "null" ELSE s[b]]

\* mutant: no commit at the end of a batch
NoBatchCommit(s) == s

\* "Commit at end of batch"
BatchCommit(s) == Commit(s)

\* One iteration of "for book_id, title, authors in batch".  o is what the
\* search variations come to: "found" (an UPDATE is executed and the loop
\* breaks), "none" (no variation gave a valid OLID), "exception" (something
\* raised inside the try: the handler logs and continues, skipping the
\* "commit every 10 updates" test).
ProcessBook(o) ==
    /\ job = "fetch_missing_olids" /\ dpc = "books"
    /\ LET upd == IF o = "found" THEN updated + 1 ELSE updated
           st == IF o = "found" THEN [olid_state EXCEPT ![di] = "pending"] ELSE olid_state
       IN  /\ updated' = upd
           /\ found' = IF o = "found" THEN found \cup {di} ELSE found
           /\ olid_state' = IF o # "exception" /\ upd % COMMIT_EVERY = 0 THEN Commit(st) ELSE st
    /\ di' = di + 1
    /\ dpc' = IF di + 1 > BatchHi THEN "batch_end" ELSE "books"
    /\ UNCHANGED <<job, nb, batch_lo, limiterVars, fetcherVars, csvVars, extVars>>

\* the commit that ends a batch; the loop goes on to the next batch or returns
CommitBatch ==
    /\ job = "fetch_missing_olids" /\ dpc = "batch_end"
    /\ olid_state' = BatchCommit(olid_state)
    /\ batch_lo' = batch_lo + OLID_BATCH_SIZE
    /\ dpc' = IF batch_lo + OLID_BATCH_SIZE > nb THEN "done" ELSE "books"
    /\ UNCHANGED <<job, nb, di, updated, found, limiterVars, fetcherVars, csvVars, extVars>>

\* the run fails in the middle of a batch (the process is stopped, or an
\* sqlite3 error ends the function and the connection is closed uncommitted)
FailRun ==
    /\ job = "fetch_missing_olids" /\ dpc \in {"books", "batch_end"}
    /\ olid_state' = Rollback(olid_state)
    /\ dpc' = "failed"
    /\ UNCHANGED <<job, nb, batch_lo, di, updated, found, limiterVars, fetcherVars, csvVars, extVars>>

InitOlid ==
    /\ batch_lo = 1 /\ di = 1 /\ updated = 0 /\ found = {}
    /\ olid_state = [b \in 1..nb |-> "null"]
    /\ dpc = "books"

\* ------------------------------------------------------------------ books table
NULL == "NULL"
Olids == {"OL1M", "OL2M"}
\* row.get('title', ''): a title, or the empty string
Titles == {"", "A"}
\* what a CSV row's description holds: no OLID, or text around one OLID
Descriptions == {"plain text", "see OL1M", "see OL2M"}
CsvRows == [title : Titles, description : Descriptions]

\* re.search(r'OL\d+M', description) behind the 'OL' / 'M' containment test
ExtractOlid(d) ==
    CASE d = "see OL1M" -> "OL1M"
      [] d = "see OL2M" -> "OL2M"
      [] OTHER -> NULL

\* mutant: the table created without UNIQUE on olid
NoUniqueConstraint(tbl, o) == FALSE

\* "olid TEXT UNIQUE": a row with this olid exists (NULLs never conflict)
UniqueViolation(tbl, o) == o # NULL /\ \E i \in 1..Len(tbl) : tbl[i].olid = o

\* INSERT OR IGNORE INTO books (olid, title, ...): the conflicting row is skipped
InsertOrIgnore(tbl, o, t) ==
    IF UniqueViolation(tbl, o) THEN tbl ELSE Append(tbl, [olid |-> o, title |-> t])

\* the "for _, row in df.iterrows()" loop of one CSV file over rows k..Len(rows)
RECURSIVE ImportRows(_, _, _)
ImportRows(tbl, rows, k) ==
    IF k > Len(rows) THEN tbl
    ELSE ImportRows(InsertOrIgnore(tbl, ExtractOlid(rows[k].description), rows[k].title),
                    rows, k + 1)

\* import_csv_to_database over the CSV file; it returns the rows it added
ImportCsv ==
    /\ job = "books_db" /\ imports < MaxImports
    /\ books' = ImportRows(books, csv_rows, 1)
    /\ imported' = Len(books') - Len(books)
    /\ imports' = imports + 1
    /\ UNCHANGED <<job, csv_rows, limiterVars, fetcherVars, csvVars, olidVars, searchVars, olSearchVars, modsVars, lateVars>>

\* fetch_missing_olids' "UPDATE books SET olid = ? WHERE id = ?" for a book
\* without OLID; a UNIQUE violation raises IntegrityError, which the per-book
\* handler logs, and the row stays as it was
UpdateOlid(i, o) ==
    /\ job = "books_db" /\ i \in 1..Len(books) /\ books[i].olid = NULL
    /\ books' = IF UniqueViolation(books, o) THEN books
                ELSE [books EXCEPT ![i].olid = o]
    /\ UNCHANGED <<job, csv_rows, imports, imported, limiterVars, fetcherVars, csvVars, olidVars, searchVars, olSearchVars, modsVars, lateVars>>

\* fetch_openlibrary_books' INSERT OR IGNORE of one doc (olid None without "key")
InsertOpenLibrary(o, t) ==
    /\ job = "books_db" /\ Len(books) < MaxDbRows
    /\ books' = InsertOrIgnore(books, o, t)
    /\ UNCHANGED <<job, csv_rows, imports, imported, limiterVars, fetcherVars, csvVars, olidVars, searchVars, olSearchVars, modsVars, lateVars>>

InitDb ==
    /\ books = << >> /\ imports = 0 /\ imported = 0

\* ------------------------------------------------------------------ search_books
\* an element of an upstream "authors" list: a string, or something else
StrElem(v) == [t |-> "str", v |-> v]
IntElem == [t |-> "int", v |-> "1"]
\* the shapes the upstream gives for authors: absent, a list of strings, a
\* single string, a list of mixed types
AuthorValues == {[shape |-> "absent", elems |-> << >>],
                 [shape |-> "list", elems |-> <<StrElem("Ann"), StrElem("Bob")>>],
                 [shape |-> "str", elems |-> <<StrElem("Ann")>>],
                 [shape |-> "list", elems |-> <<StrElem("Ann"), IntElem>>]}
\* description lengths of an item (0: no description)
DescLens == {0, 30, 150, LongDescLen}
\* an item of the response: without "volumeInfo", or with one
GoogleItems ==
    {[vi |-> FALSE, title |-> "absent", authors |-> [shape |-> "absent", elems |-> << >>], desc |-> 0]}
    \cup [vi : {TRUE}, title : {"absent", "text"}, authors : AuthorValues, desc : DescLens]
\* the query argument: empty, one character, a word
Queries == {"", "d", "design"}
QueryValid(q) == q \notin {"", "d"}

\* filter_book_data(volume_info)
FilterBookData(item) ==
    [title |-> IF item.title = "absent" THEN "" ELSE "Design Basics",
     authors |-> IF item.authors.shape = "absent" THEN [shape |-> "list", elems |-> << >>]
                                                  ELSE item.authors,
     description |-> item.desc]

\* fetch_books_from_google's list comprehension: item["volumeInfo"] raises
\* KeyError on an item without it, and the function re-raises
FetchBooksFromGoogle(items) ==
    IF \E k \in 1..Len(items) : ~items[k].vi
        THEN [ok |-> FALSE, books |-> << >>]
        ELSE [ok |-> TRUE, books |-> [k \in 1..Len(items) |-> FilterBookData(items[k])]]

\* BookResponse(**filtered_book) validates: title: str, authors: list[str]
BookResponseValid(b) ==
    /\ b.authors.shape = "list"
    /\ \A k \in 1..Len(b.authors.elems) : b.authors.elems[k].t = "str"

\* BookResponse(...).model_dump()
ModelDump(b) ==
    [title |-> b.title,
     authors |-> [k \in 1..Len(b.authors.elems) |-> b.authors.elems[k].v],
     description |-> b.description]

\* the validation loop of search_books over books k..: an invalid book is
\* logged and skipped
RECURSIVE ValidatedBooks(_, _)
ValidatedBooks(bs, k) ==
    IF k > Len(bs) THEN << >>
    ELSE (IF BookResponseValid(bs[k]) THEN <<ModelDump(bs[k])>> ELSE << >>)
         \o ValidatedBooks(bs, k + 1)

\* save_results_to_csv: None for no books or a failed write, else the file
\* with one row per book (authors joined with ', ')
SaveResultsToCsv(bs, io) ==
    IF bs = << >> \/ io = "error" THEN [written |-> FALSE, rows |-> << >>]
    ELSE [written |-> TRUE, rows |-> bs]

Response(st, bs, m, l) == [status |-> st, books |-> bs, msg |-> m, link |-> l]

\* GET /search_books.  net: the upstream request succeeds or raises; io: the
\* CSV write succeeds or raises; drive: upload_search_results_to_drive returns
\* a link or None (it swallows its exceptions).
SearchBooks(net, io, drive) ==
    /\ job = "search_books" /\ sb_pc = "idle"
    /\ sb_pc' = "done"
    /\ IF ~QueryValid(sb_query)
         THEN /\ sb_resp' = Response(400, << >>, "Query must be at least 2 characters", "none")
              /\ UNCHANGED <<sb_fetch, sb_csv>>
         ELSE LET f == IF net = "error" THEN [ok |-> FALSE, books |-> << >>]
                                        ELSE FetchBooksFromGoogle(sb_items)
                  v == ValidatedBooks(f.books, 1)
                  c == SaveResultsToCsv(v, io)
              IN  /\ sb_fetch' = [arrived |-> net = "ok", ok |-> f.ok, books |-> f.books]
                  /\ IF ~f.ok
                       THEN /\ sb_resp' = Response(500, << >>,
                                   "An unexpected error occurred while searching for books", "none")
                            /\ sb_csv' = sb_csv
                       ELSE /\ sb_csv' = c
                            /\ sb_resp' = IF ~c.written
                                 THEN Response(500, << >>, "Failed to save results to CSV", "none")
                                 ELSE Response(200, v, "none", drive)
    /\ UNCHANGED <<job, sb_query, sb_items, limiterVars, fetcherVars, csvVars, olidVars, dbVars,
                   olSearchVars, modsVars, lateVars>>

InitSearch ==
    /\ sb_pc = "idle"
    /\ sb_fetch = [arrived |-> FALSE, ok |-> TRUE, books |-> << >>]
    /\ sb_csv = [written |-> FALSE, rows |-> << >>]
    /\ sb_resp = Response(0, << >>, "none", "none")

\* ------------------------------------------------------------ search_openlibrary
\* what a doc holds under a key: nothing, null, [], a list of strings, a string
FieldShapes == {"absent", "null", "empty_list", "list", "string"}
OpenLibraryDocs == [first_sentence : FieldShapes,
                    description : {"absent", "null", "string"},
                    subtitle : {"absent", "string"}]
\* the keys tried for the description, in the order of the loop
DescriptionFields == <<"first_sentence", "description", "subtitle">>
NoneDescription == [field |-> "none", part |-> "none"]

\* the loop "for field in [...]: if field in doc: ...; break" from field i on:
\* the first key present decides, whatever its value; value[0] of an empty
\* list raises IndexError
RECURSIVE DocDescription(_, _)
DocDescription(doc, i) ==
    IF i > Len(DescriptionFields) THEN [raised |-> FALSE, description |-> NoneDescription]
    ELSE LET f == DescriptionFields[i]
         IN  CASE doc[f] = "absent" -> DocDescription(doc, i + 1)
               [] doc[f] = "empty_list" -> [raised |-> TRUE, description |-> NoneDescription]
               [] doc[f] = "list" ->
                    [raised |-> FALSE, description |-> [field |-> f, part |-> "first"]]
               [] doc[f] = "null" -> [raised |-> FALSE, description |-> NoneDescription]
               [] OTHER ->
                    [raised |-> FALSE, description |-> [field |-> f, part |-> "whole"]]

\* the body of fetch_books_from_openlibrary on a response that arrived
ParseDocs(docs) ==
    IF \E k \in 1..Len(docs) : DocDescription(docs[k], 1).raised
        THEN [ok |-> FALSE, books |-> << >>]
        ELSE [ok |-> TRUE,
              books |-> [k \in 1..Len(docs) |->
                            [title |-> "Design Basics",
                             description |-> DocDescription(docs[k], 1).description]]]

\* fetch_books_from_openlibrary under @retry(stop_after_attempt(3)): attempt
\* number a with the network outcomes nets; a RequestException returns [],
\* any other exception leaves the body and is retried, RetryError at the end
RECURSIVE FetchBooksFromOpenLibrary(_, _, _)
FetchBooksFromOpenLibrary(docs, nets, a) ==
    IF a > OL_STOP_AFTER_ATTEMPT THEN [ok |-> FALSE, books |-> << >>]
    ELSE IF nets[a] = "error" THEN [ok |-> TRUE, books |-> << >>]
    ELSE IF ParseDocs(docs).ok THEN ParseDocs(docs)
    ELSE FetchBooksFromOpenLibrary(docs, nets, a + 1)

\* GET /search_openlibrary
SearchOpenLibrary(nets, drive) ==
    /\ job = "search_openlibrary" /\ ol_pc = "idle"
    /\ ol_pc' = "done"
    /\ IF ol_query = ""
         THEN /\ ol_resp' = Response(400, << >>, "Query parameter is required", "none")
              /\ UNCHANGED ol_fetch
         ELSE LET f == FetchBooksFromOpenLibrary(ol_docs, nets, 1)
              IN  /\ ol_fetch' = [arrived |-> \A a \in DOMAIN nets : nets[a] = "ok",
                                   ok |-> f.ok, books |-> f.books]
                  /\ ol_resp' =
                       IF ~f.ok THEN Response(500, << >>, "RetryError", "none")
                       ELSE IF f.books = << >>
                           THEN Response(200, << >>, "No books found", "none")
                           ELSE Response(200, f.books, "Found books", drive)
    /\ UNCHANGED <<job, ol_query, ol_docs, limiterVars, fetcherVars, csvVars, olidVars,
                   dbVars, searchVars, modsVars, lateVars>>

InitOpenLibrary ==
    /\ ol_pc = "idle"
    /\ ol_fetch = [arrived |-> FALSE, ok |-> TRUE, books |-> << >>]
    /\ ol_resp = Response(0, << >>, "none", "none")

\* --------------------------------------------------------- extract_first_string
\* the keys a MODS dict may hold, and the text each holds
ModsKeys == {"title", "subTitle", "namePart", "#text", "other"}
ModsText(k) == CASE k = "title" -> "Design"
                 [] k = "subTitle" -> "A Primer"
                 [] k = "namePart" -> " Ann "
                 [] k = "#text" -> " Text "
                 [] OTHER -> "x"
\* a string or a dict, as a value or as an item of a list
ModsEntries ==
    {[kind |-> "str", text |-> t, keys |-> {}, items |-> << >>] : t \in {"", "Art", " Art "}}
    \cup {[kind |-> "dict", text |-> "", keys |-> K, items |-> << >>] : K \in SUBSET ModsKeys}
\* a MODS field: None, a string, a dict, or a list of strings and dicts
ModsValues ==
    {[kind |-> "none", text |-> "", keys |-> {}, items |-> << >>]}
    \cup ModsEntries
    \cup {[kind |-> "list", text |-> "", keys |-> {}, items |-> l] :
             l \in UNION {[1..n -> ModsEntries] : n \in 0..MaxModsItems}}

\* str.strip()
Strip(t) == CASE t = " Art " -> "Art"
              [] t = " Ann " -> "Ann"
              [] t = " Text " -> "Text"
              [] OTHER -> t
\* str(value) of a dict or a list
Repr(v) == IF v.kind = "dict" THEN "{...}" ELSE "[...]"
\* bool(value)
Truthy(v) == CASE v.kind = "none" -> FALSE
               [] v.kind = "str" -> v.text # ""
               [] v.kind = "dict" -> v.keys # {}
               [] OTHER -> v.items # << >>

\* the three checks made on a dict: a branch returns, or none does
DictMatches(d, key) ==
    ({"title", "subTitle"} \subseteq d.keys) \/ key \in d.keys \/ "#text" \in d.keys
DictText(d, key) ==
    IF {"title", "subTitle"} \subseteq d.keys
        THEN "Design - A Primer"
    ELSE IF key \in d.keys THEN Strip(ModsText(key))
    ELSE Strip(ModsText("#text"))

\* the loop over the items of a list from item i on: [returned, text]
RECURSIVE ListScan(_, _, _)
ListScan(l, key, i) ==
    IF i > Len(l) THEN [returned |-> FALSE, text |-> ""]
    ELSE IF l[i].kind = "str" THEN [returned |-> TRUE, text |-> Strip(l[i].text)]
    ELSE IF DictMatches(l[i], key) THEN [returned |-> TRUE, text |-> DictText(l[i], key)]
    ELSE ListScan(l, key, i + 1)

\* extract_first_string(value, key)
ExtractFirstString(v, key) ==
    IF v.kind = "list" /\ ListScan(v.items, key, 1).returned
        THEN ListScan(v.items, key, 1).text
    ELSE IF v.kind = "dict" /\ DictMatches(v, key) THEN DictText(v, key)
    ELSE IF ~Truthy(v) THEN "Unknown"
    ELSE IF v.kind = "str" THEN Strip(v.text)
    ELSE Repr(v)

ExtractField ==
    /\ job = "mods" /\ mods_pc = "idle"
    /\ mods_pc' = "done"
    /\ mods_out' = ExtractFirstString(mods_value, mods_key)
    /\ UNCHANGED <<job, mods_value, mods_key, limiterVars, fetcherVars, csvVars, olidVars,
                   dbVars, searchVars, olSearchVars, lateVars>>

InitMods ==
    /\ mods_pc = "idle"
    /\ mods_out = ""

\* ------------------------------------------------------- start-up and upload
\* the values the environment may give the two settings
KeyValues == {"missing", "blank", "ok"}
CredValues == {"missing", "empty", "malformed", "ok"}

\* Settings() requires both fields to be present (any string); the module
\* then raises RuntimeError when the key is blank
StartupOk(key, creds) == key # "missing" /\ creds # "missing" /\ key # "blank"

\* create_app() and the module-level key validation
Startup ==
    /\ job = "upload" /\ app_state = "init"
    /\ app_state' = IF StartupOk(cfg_key, cfg_creds) THEN "running" ELSE "fatal"
    /\ UNCHANGED <<job, cfg_key, cfg_creds, uploads, up_pc, up_empty, tmp_exists,
                   tmp_created, up_link, up_cfg_error, limiterVars, fetcherVars, csvVars, olidVars, dbVars,
                   searchVars, olSearchVars, modsVars, retryVars, validateVars, contentVars, importVars, yearVars,
                   cacheVars,
                   variationVars>>

\* get_drive_service(): RuntimeError on empty credentials, GoogleDriveError on
\* credentials that do not parse, else the service
GetDriveService(creds) == CASE creds = "empty" -> "RuntimeError"
                            [] creds = "malformed" -> "GoogleDriveError"
                            [] OTHER -> "service"

\* upload_to_google_drive(file_path, file_name) on an existing file: every
\* exception inside is caught and gives None; api is what files().create did
UploadToGoogleDrive(creds, api) ==
    IF GetDriveService(creds) # "service" THEN "none"
    ELSE IF api \in {"error", "no_id"} THEN "none"
    ELSE "link"

\* the finally clause: the temporary file, when one was created, is unlinked
FinallyKept(exists) == exists
FinallyUnlink(exists) == FALSE

\* upload_search_results_to_drive(books, query), up to the creation of the
\* temporary file.  empty: no books, the function returns None at once; tmp:
\* NamedTemporaryFile gives the file or raises (then no file was created)
UploadBegin(empty, tmp) ==
    /\ job = "upload" /\ app_state = "running" /\ uploads < MaxUploads
    /\ up_pc \in {"idle", "returned"}
    /\ uploads' = uploads + 1
    /\ up_empty' = empty
    /\ up_link' = "none"
    /\ up_cfg_error' = FALSE
    /\ IF empty \/ tmp = "error"
         THEN up_pc' = "returned" /\ tmp_created' = FALSE /\ tmp_exists' = FALSE
         ELSE up_pc' = "created" /\ tmp_created' = TRUE /\ tmp_exists' = TRUE
    /\ UNCHANGED <<job, cfg_key, cfg_creds, app_state, limiterVars, fetcherVars, csvVars,
                   olidVars, dbVars, searchVars, olSearchVars, modsVars, retryVars, validateVars, contentVars, importVars, yearVars,
                   cacheVars,
                   variationVars>>

\* the rows are written to the temporary file; an exception goes to the
\* except clause (None) and through the finally clause
UploadWrite(write) ==
    /\ job = "upload" /\ up_pc = "created"
    /\ IF write = "error"
         THEN up_pc' = "returned" /\ tmp_exists' = FinallyUnlink(tmp_exists)
         ELSE up_pc' = "written" /\ tmp_exists' = tmp_exists
    /\ UNCHANGED <<job, cfg_key, cfg_creds, app_state, uploads, up_empty, tmp_created,
                   up_link, up_cfg_error, limiterVars, fetcherVars, csvVars, olidVars,
                   dbVars, searchVars, olSearchVars, modsVars, retryVars, validateVars, contentVars, importVars, yearVars,
                   cacheVars,
                   variationVars>>

\* "return upload_to_google_drive(temp_file, file_name)", then the finally
\* clause
UploadSend(api) ==
    /\ job = "upload" /\ up_pc = "written"
    /\ up_pc' = "returned"
    /\ up_link' = UploadToGoogleDrive(cfg_creds, api)
    /\ up_cfg_error' = (GetDriveService(cfg_creds) # "service")
    /\ tmp_exists' = FinallyUnlink(tmp_exists)
    /\ UNCHANGED <<job, cfg_key, cfg_creds, app_state, uploads, up_empty, tmp_created,
                   limiterVars, fetcherVars, csvVars, olidVars, dbVars, searchVars,
                   olSearchVars, modsVars, retryVars, validateVars, contentVars, importVars, yearVars,
                   cacheVars,
                   variationVars>>

InitUpload ==
    /\ app_state = "init"
    /\ uploads = 0
    /\ up_pc = "idle"
    /\ up_empty = FALSE
    /\ tmp_exists = FALSE
    /\ tmp_created = FALSE
    /\ up_link = "none"
    /\ up_cfg_error = FALSE

\* ------------------------------------------- rate limit and retry, stacked
\* the fetchers decorated @sleep_and_retry @limits(...) @retry(...)
LimitedFetchers == {"make_api_request", "fetch_google_books_summary",
                    "fetch_open_library_details"}
\* calls=... of the fetcher's @limits
RateLimit(f) == CASE f = "make_api_request" -> API_CALLS_PER_MINUTE
                  [] f = "fetch_google_books_summary" -> GOOGLE_BOOKS_CALLS
                  [] OTHER -> OPEN_LIBRARY_CALLS

\* multiplier, min and max of the fetcher's wait_exponential
Multiplier(f) == IF f = "make_api_request" THEN INITIAL_BACKOFF ELSE WAIT_MULTIPLIER
WaitMin(f) == IF f = "make_api_request" THEN INITIAL_BACKOFF ELSE WAIT_MIN
WaitMax(f) == IF f = "make_api_request" THEN MAX_BACKOFF ELSE WAIT_MAX

Min2(a, b) == IF a < b THEN a ELSE b
Max2(a, b) == IF a > b THEN a ELSE b

\* tenacity before 6.0: the exponent is the attempt number itself
WaitExponentialOld(f, n) ==
    Max2(WaitMin(f), Min2(Multiplier(f) * 2^n, WaitMax(f)))

\* tenacity's wait_exponential after attempt number n (counted from 1) failed:
\* max(min, min(multiplier * 2 ** (n - 1), max))
WaitExponential(f, n) ==
    Max2(WaitMin(f), Min2(Multiplier(f) * 2^(n - 1), WaitMax(f)))

\* the time.sleep calls inside the body of make_api_request on answer r
BodySleep(f, r) ==
    IF f # "make_api_request" THEN 0
    ELSE CASE r = "http_429" -> MAX_BACKOFF
           [] r = "http_5xx" -> INITIAL_BACKOFF
           [] r \in {"ok_data", "ok_empty", "bad_shape"} -> MIN_WAIT_BETWEEN_REQUESTS
           [] OTHER -> 0

\* what the upstream answers in this part: bad_json is left to the fetcher part
RetryResponses == Responses \ {"bad_json"}

\* one attempt: the request is sent, the body runs on answer r, and tenacity
\* either returns, stops, or goes to wait for the next attempt
RunAttempt(r) ==
    /\ rt_requests' = rt_requests + 1
    /\ rt_clock' = Min2(PERIOD, rt_clock + BodySleep(rt_fn, r))
    /\ rt_pc' = IF Body(rt_fn, r) = "raise" /\ rt_attempt' < MaxAttempts(rt_fn)
                   THEN "waiting" ELSE "idle"

\* a call of the decorated fetcher: limits' wrapper counts it, and over the
\* limit sleep_and_retry sleeps to the end of the window; else @retry's
\* wrapper makes the first attempt
RetryingCall(r) ==
    /\ job = "retrying" /\ rt_pc = "idle" /\ rt_clock < PERIOD
    /\ IF rt_calls + 1 > RateLimit(rt_fn)
         THEN /\ rt_pc' = "sleeping"
              /\ UNCHANGED <<rt_calls, rt_requests, rt_attempt, rt_waits, rt_clock>>
         ELSE /\ rt_calls' = rt_calls + 1
              /\ rt_attempt' = 1
              /\ rt_waits' = << >>
              /\ RunAttempt(r)
    /\ UNCHANGED <<job, rt_fn, limiterVars, fetcherVars, csvVars, olidVars, dbVars,
                   searchVars, olSearchVars, modsVars, uploadVars, validateVars, contentVars, importVars, yearVars,
                   cacheVars,
                   variationVars>>

\* tenacity sleeps wait_exponential and makes the next attempt, inside the
\* call the limiter already counted
RetryAttempt(r) ==
    /\ job = "retrying" /\ rt_pc = "waiting"
    /\ LET w == WaitExponential(rt_fn, rt_attempt)
       IN  /\ rt_clock + w < PERIOD
           /\ rt_waits' = Append(rt_waits, w)
           /\ rt_attempt' = rt_attempt + 1
           /\ rt_requests' = rt_requests + 1
           /\ rt_clock' = Min2(PERIOD, rt_clock + w + BodySleep(rt_fn, r))
           /\ rt_pc' = IF Body(rt_fn, r) = "raise" /\ rt_attempt' < MaxAttempts(rt_fn)
                          THEN "waiting" ELSE "idle"
    /\ UNCHANGED <<job, rt_fn, rt_calls, limiterVars, fetcherVars, csvVars, olidVars,
                   dbVars, searchVars, olSearchVars, modsVars, uploadVars, validateVars, contentVars, importVars, yearVars,
                   cacheVars,
                   variationVars>>

\* time passes between two calls
RetryTick ==
    /\ job = "retrying" /\ rt_pc = "idle" /\ rt_clock + TickLen < PERIOD
    /\ rt_clock' = rt_clock + TickLen
    /\ UNCHANGED <<job, rt_fn, rt_calls, rt_requests, rt_attempt, rt_waits, rt_pc,
                   limiterVars, fetcherVars, csvVars, olidVars, dbVars, searchVars,
                   olSearchVars, modsVars, uploadVars, validateVars, contentVars, importVars, yearVars,
                   cacheVars,
                   variationVars>>

InitRetrying ==
    /\ rt_clock = 0 /\ rt_calls = 0 /\ rt_requests = 0
    /\ rt_attempt = 0 /\ rt_waits = << >> /\ rt_pc = "idle"

\* ------------------------------------------------------------------ validate_olid
\* the characters an identifier is made of here: the letters of the format,
\* a digit, a blank, another letter
OlidChars == {"O", "L", "M", "1", " ", "x"}
Digits == {"0", "1", "2", "3", "4", "5", "6", "7", "8", "9"}
OlidStrings == UNION {[1..n -> OlidChars] : n \in 0..MaxOlidLen}

\* str.strip(): leading and trailing blanks removed
RECURSIVE LStrip(_)
LStrip(t) == IF t # << >> /\ t[1] = " " THEN LStrip(Tail(t)) ELSE t
RECURSIVE RStrip(_)
RStrip(t) == IF t # << >> /\ t[Len(t)] = " " THEN RStrip(SubSeq(t, 1, Len(t) - 1)) ELSE t
StripChars(t) == RStrip(LStrip(t))

StartsWithOL(t) == Len(t) >= 2 /\ t[1] = "O" /\ t[2] = "L"
EndsWithM(t) == t # << >> /\ t[Len(t)] = "M"

\* validate_olid(olid): False for None or '', else
\* olid.strip().startswith('OL') and olid.endswith('M')
ValidateOlid(t) ==
    IF t = << >> THEN FALSE ELSE StartsWithOL(StripChars(t)) /\ EndsWithM(t)

ValidateOlidCall ==
    /\ job = "validate_olid" /\ vo_pc = "idle"
    /\ vo_pc' = "done"
    /\ vo_result' = ValidateOlid(vo_input)
    /\ UNCHANGED <<job, vo_input, limiterVars, fetcherVars, csvVars, olidVars, dbVars,
                   searchVars, olSearchVars, modsVars, uploadVars, retryVars, contentVars, importVars, yearVars,
                   cacheVars,
                   variationVars>>

InitValidate ==
    /\ vo_pc = "idle"
    /\ vo_result = FALSE

\* ------------------------------------------------- full_texts and images
\* the identifiers of this part: one of the format, one validate_olid accepts
\* although it is not
OlidA == <<"O", "L", "1", "M">>
OlidB == <<"O", "L", "x", "M">>

\* mutant: the subquery finds no row
SelectIdNone(tbl, o) == 0

\* (SELECT id FROM books WHERE olid = ?): the id of the row, or NULL (0)
SelectId(tbl, o) ==
    IF \E i \in 1..Len(tbl) : tbl[i] = o
        THEN CHOOSE i \in 1..Len(tbl) : tbl[i] = o
        ELSE 0

\* books.olid is UNIQUE: the statement would give two rows the same olid
OlidTaken(tbl, o) == o # << >> /\ \E i \in 1..Len(tbl) : tbl[i] = o

\* import_csv_to_database inserts one row: the olid is NULL or a match of
\* OL\d+M; a row whose olid is taken is ignored
ContentImport(o) ==
    /\ job = "content" /\ ct_pc = "idle" /\ Len(ct_books) < MaxContentBooks
    /\ ct_books' = IF OlidTaken(ct_books, o) THEN ct_books ELSE Append(ct_books, o)
    /\ UNCHANGED <<job, ct_texts, ct_images, ct_pc, ct_i, ct_run_texts, ct_run_images,
                   limiterVars, fetcherVars, csvVars, olidVars, dbVars, searchVars,
                   olSearchVars, modsVars, uploadVars, retryVars, validateVars, importVars,
                   yearVars,
                   cacheVars,
                   variationVars>>

\* fetch_missing_olids sets the olid of a row that has none; an olid that is
\* taken raises IntegrityError and the row is left as it was
ContentSetOlid(i, o) ==
    /\ job = "content" /\ ct_pc = "idle"
    /\ i \in 1..Len(ct_books) /\ ct_books[i] = << >>
    /\ ValidateOlid(o)
    /\ ct_books' = IF OlidTaken(ct_books, o) THEN ct_books ELSE [ct_books EXCEPT ![i] = o]
    /\ UNCHANGED <<job, ct_texts, ct_images, ct_pc, ct_i, ct_run_texts, ct_run_images,
                   limiterVars, fetcherVars, csvVars, olidVars, dbVars, searchVars,
                   olSearchVars, modsVars, uploadVars, retryVars, validateVars, importVars,
                   yearVars,
                   cacheVars,
                   variationVars>>

\* process_books_in_batches executes its SELECT
ContentStartRun ==
    /\ job = "content" /\ ct_pc = "idle" /\ ct_books # << >>
    /\ ct_pc' = "run" /\ ct_i' = 1
    /\ ct_run_texts' = [i \in 1..Len(ct_books) |-> 0]
    /\ ct_run_images' = [i \in 1..Len(ct_books) |-> 0]
    /\ UNCHANGED <<job, ct_books, ct_texts, ct_images,
                   limiterVars, fetcherVars, csvVars, olidVars, dbVars, searchVars,
                   olSearchVars, modsVars, uploadVars, retryVars, validateVars, importVars,
                   yearVars,
                   cacheVars,
                   variationVars>>

\* one row written by download_openlibrary_text / download_openlibrary_cover
\* for olid o: the table with the row, and the run's count for its book
RowsWith(tbl, o) == tbl \cup {SelectId(ct_books, o)}
CountWith(cnt, o) ==
    LET id == SelectId(ct_books, o)
    IN  IF id \in DOMAIN cnt THEN [cnt EXCEPT ![id] = @ + 1] ELSE cnt

\* one iteration of "for (olid,) in batch".  text: check_openlibrary_full_text
\* says yes, no, or response.json() raises (nothing in the function catches
\* it: the run ends); tr, cr: the download request gives a response that is
\* stored, or gives None or the INSERT fails
ContentProcessBook(text, tr, cr) ==
    /\ job = "content" /\ ct_pc = "run"
    /\ LET o == ct_books[ct_i]
           last == ct_i = Len(ct_books)
       IN  IF o = << >> \/ ~ValidateOlid(o)
             THEN /\ UNCHANGED <<ct_texts, ct_images, ct_run_texts, ct_run_images>>
                  /\ ct_i' = ct_i + 1
                  /\ ct_pc' = IF last THEN "idle" ELSE "run"
           ELSE IF text = "raise"
             THEN /\ UNCHANGED <<ct_texts, ct_images, ct_run_texts, ct_run_images, ct_i>>
                  /\ ct_pc' = "idle"
           ELSE /\ IF text = "yes" /\ tr = "stored"
                     THEN /\ ct_texts' = RowsWith(ct_texts, o)
                          /\ ct_run_texts' = CountWith(ct_run_texts, o)
                     ELSE UNCHANGED <<ct_texts, ct_run_texts>>
                /\ IF cr = "stored"
                     THEN /\ ct_images' = RowsWith(ct_images, o)
                          /\ ct_run_images' = CountWith(ct_run_images, o)
                     ELSE UNCHANGED <<ct_images, ct_run_images>>
                /\ ct_i' = ct_i + 1
                /\ ct_pc' = IF last THEN "idle" ELSE "run"
    /\ UNCHANGED <<job, ct_books, limiterVars, fetcherVars, csvVars, olidVars, dbVars,
                   searchVars, olSearchVars, modsVars, uploadVars, retryVars, validateVars, importVars,
                   yearVars,
                   cacheVars,
                   variationVars>>

InitContent ==
    /\ ct_books = << >> /\ ct_texts = {} /\ ct_images = {}
    /\ ct_pc = "idle" /\ ct_i = 1
    /\ ct_run_texts = << >> /\ ct_run_images = << >>

\* ------------------------------------------------- import_csv_to_database
\* what one INSERT OR IGNORE of the row loop does: a row is added
\* (rowcount 1), the row is ignored (rowcount 0), sqlite3.Error is raised
InsertOutcomes == {"inserted", "ignored", "error"}

\* the rows a file's loop added, from row k on
RECURSIVE Inserted(_, _)
Inserted(rows, k) ==
    IF k > Len(rows) THEN 0
    ELSE (IF rows[k] = "inserted" THEN 1 ELSE 0) + Inserted(rows, k + 1)

\* one iteration of "for csv_file in csv_files".  read: pd.read_csv gives the
\* frame or raises; rows: the outcome of each row's INSERT; commit:
\* conn.commit() succeeds or raises.  Either exception is caught by the
\* file's handler, which logs and continues with the next file.
ImportFile(read, rows, commit) ==
    /\ job = "import_files" /\ im_pc = "files" /\ im_file < MaxFiles
    /\ im_file' = im_file + 1
    /\ IF read = "error"
         THEN UNCHANGED <<im_pending, im_committed, im_imported>>
         ELSE LET n == Inserted(rows, 1)
              IN  /\ im_imported' = im_imported + n
                  /\ IF commit = "ok"
                       THEN im_committed' = im_committed + im_pending + n /\ im_pending' = 0
                       ELSE im_committed' = im_committed /\ im_pending' = im_pending + n
    /\ UNCHANGED <<job, im_pc, limiterVars, fetcherVars, csvVars, olidVars, dbVars,
                   searchVars, olSearchVars, modsVars, uploadVars, retryVars,
                   validateVars, contentVars, yearVars,
                   cacheVars,
                   variationVars>>

\* the loop is over: "return imported"
ImportReturn ==
    /\ job = "import_files" /\ im_pc = "files"
    /\ im_pc' = "returned"
    /\ UNCHANGED <<job, im_file, im_pending, im_committed, im_imported,
                   limiterVars, fetcherVars, csvVars, olidVars, dbVars,
                   searchVars, olSearchVars, modsVars, uploadVars, retryVars,
                   validateVars, contentVars, yearVars,
                   cacheVars,
                   variationVars>>

InitImport ==
    /\ im_file = 0 /\ im_pending = 0 /\ im_committed = 0 /\ im_imported = 0
    /\ im_pc = "files"

\* ------------------------------------------------------------ published year
Years == {<<"1", "9", "9", "9">>, <<"2", "0", "0", "5">>}
\* how a date is written: the year alone, "c" and the year, year-month,
\* year-month-day, month/day/year, an uncertain decade such as [199-?]
DateForms == {"year", "circa", "year_month", "iso", "us", "decade"}
DateText(form, y) ==
    CASE form = "year" -> y
      [] form = "circa" -> <<"c">> \o y
      [] form = "year_month" -> y \o <<"-", "0", "5">>
      [] form = "iso" -> y \o <<"-", "0", "5", "-", "1", "2">>
      [] form = "us" -> <<"0", "5", "/", "1", "2", "/">> \o y
      [] OTHER -> <<"[">> \o SubSeq(y, 1, 3) \o <<"-", "?", "]">>

\* ''.join(filter(str.isdigit, t))
RECURSIVE DigitsOf(_)
DigitsOf(t) ==
    IF t = << >> THEN << >>
    ELSE (IF t[1] \in Digits THEN <<t[1]>> ELSE << >>) \o DigitsOf(Tail(t))

\* t.split("-")[0]
RECURSIVE BeforeDash(_)
BeforeDash(t) ==
    IF t = << >> \/ t[1] = "-" THEN << >> ELSE <<t[1]>> \o BeforeDash(Tail(t))

\* t[:4]
FirstFour(t) == SubSeq(t, 1, IF Len(t) < 4 THEN Len(t) ELSE 4)

\* extract_year(date_info): "" without dateIssued; the digits of the string,
\* of the first string of the list, or of the first '#text' of the list
ExtractYear(shape, t) == IF shape = "missing" THEN << >> ELSE DigitsOf(t)

\* the year as written: extract_year(...)[:4].strip() in librarycloud_test,
\* publishedDate.split("-")[0] (None without publishedDate) in fetch_google_books
WrittenYear(field, shape, t) ==
    IF field = "dateIssued" THEN StripChars(FirstFour(ExtractYear(shape, t)))
    ELSE IF shape = "missing" THEN << >>
    ELSE BeforeDash(t)

WriteYear ==
    /\ job = "year" /\ yr_pc = "idle"
    /\ yr_pc' = "done"
    /\ yr_out' = WrittenYear(yr_field, yr_shape, yr_text)
    /\ UNCHANGED <<job, yr_field, yr_shape, yr_text, yr_year,
                   limiterVars, fetcherVars, csvVars, olidVars, dbVars, searchVars,
                   olSearchVars, modsVars, uploadVars, retryVars, validateVars,
                   contentVars, importVars,
                   cacheVars,
                   variationVars>>

\* the dates of the two sources: any form and holder for dateIssued; a string
\* YYYY, YYYY-MM or YYYY-MM-DD (or nothing) for publishedDate
YearInputs ==
    [field : {"dateIssued"}, shape : {"string", "list_str", "list_dict", "missing"},
     form : DateForms, year : Years]
    \cup [field : {"publishedDate"}, shape : {"string", "missing"},
          form : {"year", "year_month", "iso"}, year : Years]

InitYear ==
    /\ yr_pc = "idle" /\ yr_out = << >>
    /\ \E d \in (IF job = "year" THEN YearInputs
                                 ELSE {[field |-> "dateIssued", shape |-> "missing",
                                        form |-> "year", year |-> <<"1", "9", "9", "9">>]}) :
          /\ yr_field = d.field /\ yr_shape = d.shape /\ yr_year = d.year
          /\ yr_text = DateText(d.form, d.year)

\* ------------------------------------------- fetch_books_from_google, cached
\* mutant: the cache is never consulted
CacheHitNever(cache, q) == FALSE

\* lru_cache's lookup: the key is in the cache
CacheHit(cache, q) == \E i \in 1..Len(cache) : cache[i] = q

\* a hit makes the entry the most recently used
MoveToFront(cache, q) ==
    LET i == CHOOSE k \in 1..Len(cache) : cache[k] = q
    IN  <<q>> \o SubSeq(cache, 1, i - 1) \o SubSeq(cache, i + 1, Len(cache))

\* a result is stored; over maxsize the least recently used entry goes
CacheInsert(cache, q) ==
    LET c == <<q>> \o cache
    IN  IF Len(c) > CACHE_MAXSIZE THEN SubSeq(c, 1, CACHE_MAXSIZE) ELSE c

\* limits' counter after one more call; over the limit sleep_and_retry sleeps
\* to the end of the window and the call is the first of the next one
SlotTaken(n) == IF n + 1 > GOOGLE_SEARCH_CALLS THEN 1 ELSE n + 1

\* fetch_books_from_google(query).  query: "q", or a query never used before
\* ("other"); resp: the request and the parsing succeed, or something raises
\* (the function re-raises, and lru_cache stores nothing)
FetchCached(query, resp) ==
    /\ job = "google_cache"
    /\ IF CacheHit(gc_cache, query) /\ query = "q"
         THEN /\ gc_cache' = MoveToFront(gc_cache, query)
              /\ gc_last' = [query |-> query, q_ok |-> gc_q_ok, since |-> gc_since,
                             sent |-> FALSE, slot |-> FALSE, result |-> "cached"]
              /\ gc_since' = 0
              /\ UNCHANGED <<gc_calls, gc_requests, gc_errors, gc_q_ok>>
         ELSE /\ gc_requests < MaxGoogleRequests
              /\ resp = "error" => gc_errors < MaxFetchErrors
              /\ gc_errors' = IF resp = "error" THEN gc_errors + 1 ELSE gc_errors
              /\ gc_requests' = gc_requests + 1
              /\ gc_calls' = SlotTaken(gc_calls)
              /\ gc_last' = [query |-> query, q_ok |-> gc_q_ok, since |-> gc_since,
                             sent |-> TRUE, slot |-> TRUE,
                             result |-> IF resp = "ok" THEN "fetched" ELSE "raise"]
              /\ IF resp = "ok"
                   THEN /\ gc_cache' = CacheInsert(gc_cache, query)
                        /\ gc_q_ok' = (gc_q_ok \/ query = "q")
                        /\ gc_since' = IF query = "q" THEN 0 ELSE gc_since + 1
                   ELSE UNCHANGED <<gc_cache, gc_q_ok, gc_since>>
    /\ UNCHANGED <<job, limiterVars, fetcherVars, csvVars, olidVars, dbVars, searchVars,
                   olSearchVars, modsVars, uploadVars, retryVars, validateVars,
                   contentVars, importVars, yearVars,
                   variationVars>>

InitCache ==
    /\ gc_cache = << >> /\ gc_calls = 0 /\ gc_requests = 0 /\ gc_errors = 0
    /\ gc_q_ok = FALSE /\ gc_since = 0
    /\ gc_last = [query |-> "none", q_ok |-> FALSE, since |-> 0,
                  sent |-> FALSE, slot |-> FALSE, result |-> "none"]

\* --------------------------------------- fetch_missing_olids, one book
\* search_variations, in the order of the list
SearchVariations == <<"title_authors", "title", "first_three_words">>
\* what one search gives: no response (make_api_request returned None), no
\* docs, a first doc whose key does not end in a valid OLID, one whose key
\* does, or a body for which response.json() raises
SearchResults == {"no_response", "no_docs", "invalid_key", "valid_olid", "json_error"}

\* the loop "for search_query in search_variations" from variation k on, with
\* the requests made so far: [requests, updates, counted, set]
RECURSIVE TryVariations(_, _, _, _)
TryVariations(results, upd, k, reqs) ==
    IF k > Len(SearchVariations)
        THEN [requests |-> reqs, updates |-> 0, counted |-> FALSE, set |-> FALSE]
    ELSE LET sent == Append(reqs, SearchVariations[k])
         IN  CASE results[k] = "json_error" ->
                    [requests |-> sent, updates |-> 0, counted |-> FALSE, set |-> FALSE]
               [] results[k] = "valid_olid" ->
                    [requests |-> sent, updates |-> 1,
                     counted |-> upd = "ok", set |-> upd = "ok"]
               [] OTHER -> TryVariations(results, upd, k + 1, sent)

\* one iteration of "for book_id, title, authors in batch"
SearchOlid ==
    /\ job = "olid_search" /\ os_pc = "idle"
    /\ os_pc' = "done"
    /\ LET t == TryVariations(os_results, os_upd, 1, << >>)
       IN  /\ os_requests' = t.requests
           /\ os_updates' = t.updates
           /\ os_counted' = t.counted
           /\ os_set' = t.set
    /\ UNCHANGED <<job, os_results, os_upd, limiterVars, fetcherVars, csvVars, olidVars,
                   dbVars, searchVars, olSearchVars, modsVars, uploadVars, retryVars,
                   validateVars, contentVars, importVars, yearVars, cacheVars>>

InitVariations ==
    /\ os_pc = "idle" /\ os_requests = << >> /\ os_updates = 0
    /\ os_counted = FALSE /\ os_set = FALSE

\* what fetch_missing_olids returns: "updated", or 0 from the outer handler
\* when the commit that ends a batch raised
ReturnedCount == IF dpc = "failed" THEN 0 ELSE updated

InitLimiter ==
    /\ clock = 0 /\ last_reset = 0 /\ num_calls = 0
    /\ rl_pc = "idle" /\ wake = 0 /\ log = << >> /\ outcome = "none" /\ blocked = FALSE

Init ==
    /\ job \in Jobs
    /\ InitLimiter
    /\ rl_calls \in (IF job = "limiter" THEN {GOOGLE_BOOKS_CALLS, OPEN_LIBRARY_CALLS, API_CALLS_PER_MINUTE}
                                        ELSE {GOOGLE_BOOKS_CALLS})
    /\ InitFetcher
    /\ fn \in (IF job = "fetcher" THEN Fetchers ELSE {"make_api_request"})
    /\ jsonErrIsReqExc \in (IF job = "fetcher" THEN BOOLEAN ELSE {TRUE})
    /\ InitCsv
    /\ nrows \in (IF job = "process_books" THEN 1..MaxRows ELSE {1})
    /\ batch_size \in (IF job = "process_books" THEN 1..MaxBatch ELSE {1})
    /\ nb \in (IF job = "fetch_missing_olids" THEN 1..MaxBooks ELSE {1})
    /\ InitOlid
    /\ InitDb
    /\ InitSearch
    /\ InitOpenLibrary
    /\ InitMods
    /\ InitUpload
    /\ InitRetrying
    /\ InitValidate
    /\ InitContent
    /\ InitImport
    /\ InitYear
    /\ InitCache
    /\ InitVariations
    /\ os_results \in (IF job = "olid_search"
                          THEN [1..Len(SearchVariations) -> SearchResults]
                          ELSE {[k \in 1..Len(SearchVariations) |-> "no_docs"]})
    /\ os_upd \in (IF job = "olid_search" THEN {"ok", "integrity_error"} ELSE {"ok"})
    /\ vo_input \in (IF job = "validate_olid" THEN OlidStrings ELSE {<< >>})
    /\ rt_fn \in (IF job = "retrying" THEN LimitedFetchers ELSE {"make_api_request"})
    /\ cfg_key \in (IF job = "upload" THEN KeyValues ELSE {"ok"})
    /\ cfg_creds \in (IF job = "upload" THEN CredValues ELSE {"ok"})
    /\ mods_key \in (IF job = "mods" THEN {"title", "namePart"} ELSE {"title"})
    /\ mods_value \in (IF job = "mods" THEN ModsValues
                                         ELSE {[kind |-> "none", text |-> "", keys |-> {},
                                                items |-> << >>]})
    /\ ol_query \in (IF job = "search_openlibrary" THEN {"", "design"} ELSE {""})
    /\ ol_docs \in (IF job = "search_openlibrary"
                       THEN UNION {[1..n -> OpenLibraryDocs] : n \in 0..MaxDocs}
                       ELSE {<< >>})
    /\ sb_query \in (IF job = "search_books" THEN Queries ELSE {""})
    /\ sb_items \in (IF job = "search_books"
                        THEN UNION {[1..n -> GoogleItems] : n \in 0..MaxItems}
                        ELSE {<< >>})
    /\ csv_rows \in (IF job = "books_db"
                        THEN UNION {[1..n -> CsvRows] : n \in 1..MaxCsvRows}
                        ELSE {<< >>})

Next ==
    \/ CallFetcher
    \/ WakeAndRetry
    \/ Tick
    \/ \E r \in Responses : Attempt(r)
    \/ \E g \in CallResults("fetch_google_books_summary"),
          o \in CallResults("fetch_open_library_details") : ProcessRow(g, o)
    \/ WriteChunk
    \/ Interrupt
    \/ Rerun
    \/ \E o \in {"found", "none", "exception"} : ProcessBook(o)
    \/ CommitBatch
    \/ FailRun
    \/ ImportCsv
    \/ \E i \in 1..MaxDbRows, o \in Olids : UpdateOlid(i, o)
    \/ \E o \in Olids \cup {NULL}, t \in Titles : InsertOpenLibrary(o, t)
    \/ \E net \in {"ok", "error"}, io \in {"ok", "error"}, drive \in {"link", "none"} :
          SearchBooks(net, io, drive)
    \/ \E nets \in [1..OL_STOP_AFTER_ATTEMPT -> {"ok", "error"}], drive \in {"link", "none"} :
          SearchOpenLibrary(nets, drive)
    \/ ExtractField
    \/ Startup
    \/ \E empty \in BOOLEAN, tmp \in {"ok", "error"} : UploadBegin(empty, tmp)
    \/ \E write \in {"ok", "error"} : UploadWrite(write)
    \/ \E api \in {"ok", "error", "no_id", "permissions_error"} : UploadSend(api)
    \/ \E r \in RetryResponses : RetryingCall(r)
    \/ \E r \in RetryResponses : RetryAttempt(r)
    \/ RetryTick
    \/ ValidateOlidCall
    \/ \E o \in {<< >>, OlidA} : ContentImport(o)
    \/ \E i \in 1..MaxContentBooks, o \in {OlidA, OlidB} : ContentSetOlid(i, o)
    \/ \E read \in {"ok", "error"}, commit \in {"ok", "error"},
          rows \in UNION {[1..n -> InsertOutcomes] : n \in 0..MaxFileRows} :
          ImportFile(read, rows, commit)
    \/ ImportReturn
    \/ WriteYear
    \/ \E resp \in {"ok", "error"} : FetchCached("q", resp)
    \/ FetchCached("other", "ok")
    \/ SearchOlid
    \/ ContentStartRun
    \/ \E text \in {"yes", "no", "raise"}, tr \in {"stored", "none"}, cr \in {"stored", "none"} :
          ContentProcessBook(text, tr, cr)

Spec == Init /\ [][Next]_vars

\* number of calls admitted at times >= t that the log still holds
RECURSIVE SumFrom(_, _, _)
SumFrom(l, ts, t) ==
    IF ts = {} THEN 0
    ELSE LET s == CHOOSE x \in ts : TRUE
         IN (IF s >= t THEN l[s] ELSE 0) + SumFrom(l, ts \ {s}, t)
AdmittedSince(t) == SumFrom(log, DOMAIN log, t)


\* ------------------------------------------------------------------ claims

C3_RetriedOnTransient ==
    job = "fetcher" =>
        /\ Len(resps) <= MaxAttempts(fn)
        /\ fpc = "done" =>
             \A i \in 1..Len(resps) :
                 (resps[i] \in Retryable /\ i < MaxAttempts(fn)) => i < Len(resps)

\* C4 (as stated): a call whose every attempt failed with a transient error
\* ends in a failure, never in an empty result.
C4_FailureSurfaced ==
    (job = "fetcher" /\ fpc = "done" /\ \A i \in 1..Len(resps) : resps[i] \in Retryable)
        => result \notin EmptyResults

\* C5 (as stated): only retryable failures are retried; a terminal failure
\* (a 4xx other than 429, a malformed or unexpectedly shaped body) ends the
\* call at that attempt, which is its only one.
C5_OnlyRetryableRetried ==
    job = "fetcher" =>
        \A i \in 1..Len(resps) :
            resps[i] \in Terminal => (i = 1 /\ Len(resps) = 1 /\ fpc = "done")

\* C6 (as stated): when process_books has completed, the output holds exactly
\* one header line followed by the nrows input rows in input order.
C6_OneHeaderNRows ==
    (job = "process_books" /\ csv_pc = "completed")
        => fileLines = <<Header>> \o RowsSeq(1, nrows)

\* C7 (as stated): once a run has written its first batch, the output is the
\* header followed by the rows this run has written so far (the first write
\* replaced what the path held, later ones appended without header).
C7_FirstBatchTruncates ==
    (job = "process_books" /\ chunk_lo > 1)
        => fileLines = <<Header>> \o RowsSeq(1, chunk_lo - 1)

\* number of lines of the output that hold input row r
Occurrences(r) == Cardinality({k \in 1..Len(fileLines) : fileLines[k] = Row(r)})

\* C8 (as stated): when the run that follows an interrupted run on the same
\* paths has completed, the output holds every input row exactly once.
C8_ResumeNoDuplicates ==
    (job = "process_books" /\ csv_pc = "completed" /\ prev_end = "interrupted")
        => \A r \in 1..nrows : Occurrences(r) = 1

\* C9: progress is checkpointed per batch.  process_books: while batch k+1 is
\* handled (or the run has failed in it) the output file ends with the rows
\* of the batches 1..k of this run.  fetch_missing_olids: no update of a
\* finished batch is uncommitted, and every update executed in a finished
\* batch is committed, also after a failure in a later batch.
C9_Checkpointed ==
    /\ job = "process_books" =>
         LET k == chunk_lo - 1
         IN  /\ Len(fileLines) >= k
             /\ SubSeq(fileLines, Len(fileLines) - k + 1, Len(fileLines)) = RowsSeq(1, k)
    /\ job = "fetch_missing_olids" =>
         \A b \in 1..nb :
             b < batch_lo => /\ olid_state[b] # "pending"
                             /\ b \in found => olid_state[b] = "committed"

\* C9 witness: the run failed in its second batch and the first batch's
\* updates are committed
C9_Witness ==
    /\ job = "fetch_missing_olids" /\ dpc = "failed" /\ batch_lo > 1 /\ di > batch_lo
    /\ \E b \in 1..(batch_lo - 1) : b \in found /\ olid_state[b] = "committed"
    /\ \E b \in batch_lo..nb : b \in found /\ olid_state[b] = "null"

\* C10 (as stated): a failure on one row never ends a run: a run of a batch
\* driver that has ended (other than by the process being stopped) has
\* handled every row.
C10_RowFailureSkipped ==
    /\ (job = "process_books" /\ csv_pc \in {"completed", "failed"}) => next_row > nrows
    /\ (job = "fetch_missing_olids" /\ dpc = "done") => di > nb

\* C12: in every state of the books table no two rows carry the same non-null
\* olid, whatever imports, OLID updates and inserts have run.
C12_OlidUnique ==
    job = "books_db" =>
        \A i, j \in 1..Len(books) :
            (i # j /\ books[i].olid # NULL) => books[i].olid # books[j].olid

\* C12 witness: the CSV was imported twice and a row with an OLID is there once
C12_Witness ==
    /\ job = "books_db" /\ imports = 2
    /\ \E k \in 1..Len(csv_rows) :
          /\ ExtractOlid(csv_rows[k].description) # NULL
          /\ Cardinality({i \in 1..Len(books) :
                 books[i].olid = ExtractOlid(csv_rows[k].description)}) = 1

\* C13 (as stated): a second run of import_csv_to_database over the same CSV
\* rows adds no books row.
C13_ImportIdempotent ==
    (job = "books_db" /\ imports >= 2) => imported = 0

\* C14: no record with an empty title is emitted or persisted: every book
\* search_books returns, every row save_results_to_csv writes and every row
\* import_csv_to_database inserts has a non-empty title.
C14_TitleNeverEmpty ==
    /\ \A k \in 1..Len(sb_resp.books) : sb_resp.books[k].title # ""
    /\ \A k \in 1..Len(sb_csv.rows) : sb_csv.rows[k].title # ""
    /\ \A i \in 1..Len(books) : books[i].title # ""

\* C15: a candidate whose description is shorter than 100 characters is
\* rejected: no book of a successful search and no data row of its CSV has a
\* description shorter than that.
C15_ShortDescriptionRejected ==
    (sb_pc = "done" /\ sb_resp.status = 200) =>
        /\ \A k \in 1..Len(sb_resp.books) :
              sb_resp.books[k].description = 0 \/ sb_resp.books[k].description >= 100
        /\ \A k \in 1..Len(sb_csv.rows) :
              sb_csv.rows[k].description = 0 \/ sb_csv.rows[k].description >= 100

\* C16: a description longer than the maximum is stored truncated: no stored
\* description is as long as the longest one the upstream gave.
C16_LongDescriptionTruncated ==
    (sb_pc = "done" /\ sb_resp.status = 200) =>
        /\ \A k \in 1..Len(sb_resp.books) : sb_resp.books[k].description < LongDescLen
        /\ \A k \in 1..Len(sb_csv.rows) : sb_csv.rows[k].description < LongDescLen

\* C17: whatever the shape of an item's authors, a successful search emits a
\* record for the item, with the authors as strings in upstream order.
C17_AuthorsNormalized ==
    (sb_pc = "done" /\ sb_resp.status = 200) =>
        /\ Len(sb_resp.books) = Len(sb_items)
        /\ \A k \in 1..Len(sb_resp.books) :
              sb_resp.books[k].authors =
                  [j \in 1..Len(sb_items[k].authors.elems) |-> sb_items[k].authors.elems[j].v]

\* the description the preference order gives for a doc from field i on: the
\* first of the three keys that provides a value
RECURSIVE PreferredDescription(_, _)
PreferredDescription(doc, i) ==
    IF i > Len(DescriptionFields) THEN NoneDescription
    ELSE LET f == DescriptionFields[i]
         IN  CASE doc[f] = "list" -> [field |-> f, part |-> "first"]
               [] doc[f] = "string" -> [field |-> f, part |-> "whole"]
               [] OTHER -> PreferredDescription(doc, i + 1)

\* C19: for each doc of a response that arrived, fetch_books_from_openlibrary
\* returns a book whose description comes from first_sentence if available,
\* else from description, else from subtitle, and is None only when none of the
\* three provides a value.
C19_DescriptionPreference ==
    (ol_pc = "done" /\ ol_resp.status # 400 /\ ~(ol_fetch.ok /\ ol_fetch.books = << >>)) =>
        /\ ol_fetch.ok
        /\ Len(ol_fetch.books) = Len(ol_docs)
        /\ \A k \in 1..Len(ol_fetch.books) :
              ol_fetch.books[k].description = PreferredDescription(ol_docs[k], 1)

\* C11: when one item of an upstream response is malformed, that item alone
\* is skipped: every item with a volumeInfo is returned by
\* fetch_books_from_google, and every doc whose description can be read is
\* returned by fetch_books_from_openlibrary.
C11_MalformedItemSkipped ==
    /\ (sb_pc = "done" /\ QueryValid(sb_query) /\ sb_fetch.arrived) =>
          /\ sb_fetch.ok
          /\ \A k \in 1..Len(sb_items) :
                sb_items[k].vi =>
                    \E j \in 1..Len(sb_fetch.books) :
                        sb_fetch.books[j] = FilterBookData(sb_items[k])
    /\ (ol_pc = "done" /\ ol_query # "" /\ ol_fetch.arrived) =>
          /\ ol_fetch.ok
          /\ \A k \in 1..Len(ol_docs) :
                ~DocDescription(ol_docs[k], 1).raised =>
                    \E j \in 1..Len(ol_fetch.books) :
                        ol_fetch.books[j].description = DocDescription(ol_docs[k], 1).description

\* C20: when no record survives for a valid query, search_books and
\* search_openlibrary answer 200 with an empty books list and a message.
C20_EmptyResultExplained ==
    /\ (/\ sb_pc = "done" /\ QueryValid(sb_query)
        /\ sb_fetch.arrived /\ sb_fetch.ok
        /\ ValidatedBooks(sb_fetch.books, 1) = << >>) =>
          (sb_resp.status = 200 /\ sb_resp.books = << >> /\ sb_resp.msg # "none")
    /\ (ol_pc = "done" /\ ol_query # "" /\ ol_fetch.ok /\ ol_fetch.books = << >>) =>
          (ol_resp.status = 200 /\ ol_resp.books = << >> /\ ol_resp.msg # "none")

\* an entry a shape of extract_first_string matches: a non-empty string, or a
\* dict with title and subTitle, with the key, or with "#text"
UsableEntry(e, key) ==
    IF e.kind = "str" THEN e.text # "" ELSE e.kind = "dict" /\ DictMatches(e, key)
Usable(v, key) ==
    IF v.kind = "list" THEN \E i \in 1..Len(v.items) : UsableEntry(v.items[i], key)
    ELSE UsableEntry(v, key)

\* C18: extract_first_string returns a clean text for a value one of the
\* shapes matches, and "Unknown" for every value none matches, a non-empty
\* list or dict with no usable entry included.
C18_CleanOrUnknown ==
    mods_pc = "done" =>
        IF Usable(mods_value, mods_key)
            THEN mods_out \notin {"", "Unknown", "{...}", "[...]"} /\ mods_out = Strip(mods_out)
            ELSE mods_out = "Unknown"

\* C21: a missing or malformed key or credential is fatal at start-up: the
\* application never runs with one, and no upload fails on the credentials.
C21_ConfigFatalAtStartup ==
    /\ app_state = "running" => (cfg_key = "ok" /\ cfg_creds = "ok")
    /\ ~up_cfg_error

\* C29: when upload_search_results_to_drive has returned, the temporary file
\* it created no longer exists, whatever the exit path; with an empty book
\* list no temporary file is created.
C29_TempFileRemoved ==
    /\ up_pc = "returned" => ~tmp_exists
    /\ (up_pc = "returned" /\ up_empty) => ~tmp_created

\* a call that created its temporary file, failed in the upload and returned
\* None
C29_Witness ==
    /\ up_pc = "returned" /\ tmp_created /\ ~tmp_exists
    /\ up_link = "none" /\ up_cfg_error

C27_RequestsWithinLimit ==
    rt_requests <= RateLimit(rt_fn)

\* the format OL<digits>M: 'OL', one or more decimal digits, 'M'
IsOlidFormat(t) ==
    /\ Len(t) >= 4
    /\ t[1] = "O" /\ t[2] = "L" /\ t[Len(t)] = "M"
    /\ \A i \in 3..(Len(t) - 1) : t[i] \in Digits

\* C25: validate_olid accepts exactly the strings of the form OL<digits>M.
C25_ExactOlidFormat ==
    vo_pc = "done" => (vo_result <=> IsOlidFormat(vo_input))

\* C23: every row of full_texts and of images has the id of an existing books
\* row as its book_id, and one run of process_books_in_batches writes at most
\* one full-text row and at most one cover row per book.
C23_ContentRowsReferToBooks ==
    /\ ct_texts \subseteq 1..Len(ct_books)
    /\ ct_images \subseteq 1..Len(ct_books)
    /\ \A i \in DOMAIN ct_run_texts : ct_run_texts[i] <= 1
    /\ \A i \in DOMAIN ct_run_images : ct_run_images[i] <= 1

\* a finished run that stored the text and the cover of the second book,
\* whose olid fetch_missing_olids had set
C23_Witness ==
    /\ ct_pc = "idle" /\ ct_i > Len(ct_books) /\ Len(ct_books) = MaxContentBooks
    /\ ct_books[1] = << >>
    /\ 2 \in ct_texts /\ 2 \in ct_images
    /\ ct_run_texts[2] = 1 /\ ct_run_images[2] = 1

\* C24: the count import_csv_to_database returns equals the number of rows
\* the call added that are committed when it returns.
C24_CountIsCommittedRows ==
    im_pc = "returned" => (im_imported = im_committed /\ im_pending = 0)

\* C26: the published year written to the output is empty, or the four
\* decimal digits of the year of the date.
C26_YearFourDigits ==
    yr_pc = "done" =>
        \/ yr_out = << >>
        \/ /\ Len(yr_out) = 4
           /\ \A i \in 1..4 : yr_out[i] \in Digits
           /\ yr_out = yr_year

\* C28 (as stated): a call with a query whose earlier call succeeded returns
\* the cached result, sends no request and takes no slot of the window.
C28_RepeatIsCached ==
    (gc_last.query = "q" /\ gc_last.q_ok) =>
        (gc_last.result = "cached" /\ ~gc_last.sent /\ ~gc_last.slot)

\* C28 (amended): a call with a query whose earlier call succeeded, and after
\* which fewer than maxsize other queries were cached, returns the cached
\* result, sends no request and takes no slot; after maxsize others the entry
\* is gone and the call sends a request; a call that raised leaves nothing in
\* the cache, so the next call with the query sends a request.
C28_RepeatIsCachedUntilEvicted ==
    /\ (gc_last.query = "q" /\ gc_last.q_ok /\ gc_last.since < CACHE_MAXSIZE) =>
          (gc_last.result = "cached" /\ ~gc_last.sent /\ ~gc_last.slot)
    /\ (gc_last.query = "q" /\ (~gc_last.q_ok \/ gc_last.since >= CACHE_MAXSIZE)) =>
          (gc_last.result # "cached" /\ gc_last.sent /\ gc_last.slot)
    /\ Len(gc_cache) <= CACHE_MAXSIZE

\* the query's entry was the least recently used of a full cache when the
\* call came, and was returned
C28_Witness ==
    /\ gc_last.query = "q" /\ gc_last.q_ok /\ gc_last.since = CACHE_MAXSIZE - 1
    /\ gc_last.result = "cached" /\ gc_requests = CACHE_MAXSIZE

\* C30: for each book the variations are searched in the fixed order up to
\* the first whose first result yields a valid OLID, with at most 3 requests
\* and at most one UPDATE; and the count fetch_missing_olids returns equals
\* the number of books whose olid was set.
C30_VariationsAndCount ==
    /\ os_pc = "done" =>
          /\ Len(os_requests) <= 3 /\ os_updates <= 1
          /\ os_requests = SubSeq(SearchVariations, 1, Len(os_requests))
          /\ \A k \in 1..Len(os_requests) :
                os_results[k] = "valid_olid" => k = Len(os_requests)
          /\ os_counted <=> os_set
    /\ (/\ job = "fetch_missing_olids"
        /\ \/ dpc = "done"
           \/ /\ dpc = "failed" /\ di > BatchHi
              /\ \E b \in found : olid_state[b] = "null") =>
          ReturnedCount = Cardinality({b \in 1..nb : olid_state[b] = "committed"})

============================================================================
